---- MODULE Spec2Model ----
(***************************************************************************)
(* Model of src/shortcut-creator.py: the ShortcutCreator form and its      *)
(* create_shortcut handler (validation, desktop-entry rendering and the    *)
(* install pipeline), together with the part of the filesystem it touches. *)
(*                                                                         *)
(* Text is modelled as a sequence of one-character strings where the code  *)
(* transforms it character by character (the application name, the entry   *)
(* filename); paths are opaque strings.  The entry content is the sequence *)
(* of its lines; a line "Key=value" is the pair <<"Key", value>> and the   *)
(* header line is the 1-tuple <<"[Desktop Entry]">>.  A file mode is the   *)
(* set of its permission bits.  The pictographs that open some log lines   *)
(* are written OK, ! and X.                                                *)
(***************************************************************************)
EXTENDS Naturals, Sequences, FiniteSets

VARIABLES
  executable_path,   \* QLineEdit text
  icon_path,         \* QLineEdit text
  app_name,          \* QLineEdit text
  comment,           \* QLineEdit text
  categories,        \* QComboBox current text
  terminal,          \* QCheckBox
  desktop_copy,      \* QCheckBox
  log_text,          \* lines appended to the log area
  pc,                \* position of create_shortcut
  desktop_filename,  \* local of create_shortcut
  desktop_content,   \* local of create_shortcut
  caller,            \* class of the calling user for the target executable
  noexec,            \* the filesystem is mounted noexec
  tool,              \* how running update-desktop-database ends on this system
  exe_mode,          \* permission bits of the target executable
  apps_dir,          \* ~/.local/share/applications exists
  apps_files,        \* its files: name -> [content, mode]
  desktop_dir,       \* ~/Desktop exists
  desktop_files,     \* its files: name -> [content, mode]
  subprocess_runs,   \* calls of update-desktop-database so far
  messages,          \* message boxes shown by the submission in progress
  history            \* one report per finished submission

vars == <<executable_path, icon_path, app_name, comment, categories, terminal,
          desktop_copy, log_text, pc, desktop_filename, desktop_content,
          caller, noexec, tool, exe_mode, apps_dir, apps_files, desktop_dir, desktop_files,
          subprocess_runs, messages, history>>

form == <<executable_path, icon_path, app_name, comment, categories, terminal,
          desktop_copy>>

locals == <<desktop_filename, desktop_content>>

env == <<caller, noexec, tool>>

disk == <<exe_mode, apps_dir, apps_files, desktop_dir, desktop_files>>

-----------------------------------------------------------------------------
(* Bounds *)

\* longest application name of the rendering specification
MaxNameLen == 3

\* clicks of "Create Desktop Shortcut" in one behaviour
MaxSubmissions == 2

-----------------------------------------------------------------------------
(* Inputs *)

Alphabet == {"M", "y", " ", "-"}

RECURSIVE SeqsUpTo(_, _)
SeqsUpTo(S, n) ==
  IF n = 0 THEN {<<>>}
  ELSE LET shorter == SeqsUpTo(S, n - 1)
       IN  shorter \cup {Append(s, c) : s \in {t \in shorter : Len(t) = n - 1}, c \in S}

Names == SeqsUpTo(Alphabet, MaxNameLen)

\* the names the install pipeline is run with
PipelineNames == {<<>>, <<" ">>, <<"M", " ", "y">>}

Comments == {<<>>, <<"y">>}

TheExecutable == "/opt/app/run.AppImage"

TheIcon == "/opt/app/icon.png"

ExistingPaths == {TheExecutable, TheIcon}

ExecutablePaths == {"", TheExecutable, "/opt/app/gone.AppImage"}

IconPaths == {"", TheIcon, "/opt/app/gone.png"}

CategoryItems ==
  <<"Application", "Development", "TextEditor", "Graphics", "Internet",
    "Multimedia", "Office", "Game", "System", "Utility">>

Callers == {"owner", "group", "root"}

\* the ways subprocess.run(['update-desktop-database', ...], check=True) ends
RunOutcomes == {"", "CalledProcessError", "FileNotFoundError", "PermissionError"}

S_IEXEC == "S_IXUSR"

ExecBits == {"S_IXUSR", "S_IXGRP", "S_IXOTH"}

\* a file created by open(path, 'w'): 0666 masked by the usual umask 022
NewFileMode == {"S_IRUSR", "S_IWUSR", "S_IRGRP", "S_IROTH"}

EmptyDir == [n \in {} |-> n]

\* Path.home() / '.local' / 'share' / 'applications'
AppsDirPath == "~/.local/share/applications/"

\* Path.home() / 'Desktop'
DesktopDirPath == "~/Desktop/"

-----------------------------------------------------------------------------
(* Library calls *)

exists(path) == path \in ExistingPaths

\* os.access(path, os.X_OK) for a caller of class cls; a noexec mount denies it
os_access(mode, cls, mounted_noexec) ==
  /\ ~mounted_noexec
  /\ CASE cls = "owner" -> "S_IXUSR" \in mode
       [] cls = "group" -> "S_IXGRP" \in mode
       [] cls = "root"  -> mode \cap ExecBits # {}

\* os.chmod is allowed to the owner and to root
may_chmod(cls) == cls \in {"owner", "root"}

\* the class of the calling user for a file it created itself
own_class == IF caller = "root" THEN "root" ELSE "owner"

lower_char(c) == IF c = "M" THEN "m" ELSE c

lower(s) == [i \in 1..Len(s) |-> lower_char(s[i])]

replace(s, old, new) == [i \in 1..Len(s) |-> IF s[i] = old THEN new ELSE s[i]]

append_file(files, name, text) ==
  [n \in DOMAIN files \cup {name} |->
     IF n = name
     THEN IF name \in DOMAIN files
          THEN [files[name] EXCEPT !.content = @ \o text]
          ELSE [content |-> text, mode |-> NewFileMode]
     ELSE files[n]]

\* open(path, 'w'); f.write(text): the file is created or truncated, then written
write_file(files, name, text) ==
  [n \in DOMAIN files \cup {name} |->
     IF n = name
     THEN [content |-> text,
           mode    |-> IF name \in DOMAIN files THEN files[name].mode ELSE NewFileMode]
     ELSE files[n]]

chmod_file(files, name, mode) ==
  [n \in DOMAIN files |-> IF n = name THEN [files[n] EXCEPT !.mode = mode] ELSE files[n]]

-----------------------------------------------------------------------------
(* ShortcutCreator *)

Init ==
  /\ executable_path = ""
  /\ icon_path = ""
  /\ app_name = <<>>
  /\ comment = <<>>
  /\ categories = CategoryItems[1]
  /\ terminal = FALSE
  /\ desktop_copy = FALSE
  /\ log_text = <<>>
  /\ pc = "idle"
  /\ desktop_filename = <<>>
  /\ desktop_content = <<>>
  /\ caller \in Callers
  /\ noexec \in BOOLEAN
  /\ tool \in RunOutcomes
  /\ exe_mode \in {{"S_IRUSR"} \cup x : x \in SUBSET {"S_IXUSR", "S_IXGRP"}}
  /\ apps_dir \in BOOLEAN
  /\ apps_files = EmptyDir
  /\ desktop_dir \in BOOLEAN
  /\ desktop_files = EmptyDir
  /\ subprocess_runs = 0
  /\ messages = <<>>
  /\ history = <<>>

\* The user fills in the form before the first submission.  The pipeline is
\* run with the names of PipelineNames, no comment, no terminal and the last
\* category; SpecBuild covers the rendering of the other values.
EditForm ==
  /\ pc = "idle"
  /\ executable_path' \in ExecutablePaths
  /\ icon_path' \in IconPaths
  /\ app_name' \in PipelineNames
  /\ comment' = <<>>
  /\ categories' = CategoryItems[10]
  /\ terminal' = FALSE
  /\ desktop_copy' \in BOOLEAN
  /\ UNCHANGED <<log_text, pc, locals, env, disk, subprocess_runs, messages, history>>

log(message) == log_text' = Append(log_text, message)

critical(text) == [kind |-> "critical", title |-> "Error", text |-> text]

information(text) == [kind |-> "information", title |-> "Success", text |-> text]

report(result) ==
  history' = Append(history, [result |-> result, apps |-> apps_files',
                              desktop |-> desktop_files'])

validate_inputs_icon_unchecked ==
  IF executable_path = "" THEN "Please select an executable file"
  ELSE IF ~exists(executable_path) THEN "Executable file does not exist"
  ELSE IF app_name = <<>> THEN "Please enter an application name"
  ELSE ""

\* validate_inputs: the text of the message box it shows, or "" when it returns True
validate_inputs ==
  IF executable_path = "" THEN "Please select an executable file"
  ELSE IF ~exists(executable_path) THEN "Executable file does not exist"
  ELSE IF app_name = <<>> THEN "Please enter an application name"
  ELSE IF icon_path # "" /\ ~exists(icon_path) THEN "Icon file does not exist"
  ELSE ""

except_without_message(logged, e) ==
  /\ log_text' = Append(logged, <<"X ", <<"Error creating desktop shortcut: ", e>> >>)
  /\ messages' = messages
  /\ pc' = "done"
  /\ report("error")

except_unlogged(logged, e) ==
  /\ log_text' = logged
  /\ messages' = Append(messages, critical(<<"Error creating desktop shortcut: ", e>>))
  /\ pc' = "done"
  /\ report("error")

\* the except clause of create_shortcut, entered with `logged` in the log area
except(logged, e) ==
  LET error_msg == <<"Error creating desktop shortcut: ", e>>
  IN  /\ log_text' = Append(logged, <<"X ", error_msg>>)
      /\ messages' = Append(messages, critical(error_msg))
      /\ pc' = "done"
      /\ report("error")

\* create_shortcut up to its first log line
Submit ==
  /\ pc \in {"idle", "done"}
  /\ Len(history) < MaxSubmissions
  /\ UNCHANGED <<form, locals, env, disk, subprocess_runs>>
  /\ IF validate_inputs # ""
     THEN /\ messages' = <<critical(<<validate_inputs>>)>>
          /\ pc' = "done"
          /\ report("rejected")
          /\ UNCHANGED log_text
     ELSE /\ messages' = <<>>
          /\ log(<<"Starting desktop shortcut creation...">>)
          /\ pc' = "chmod_executable"
          /\ UNCHANGED history

chmod_executable_for_all(mode) == mode \cup ExecBits

\* os.stat(executable_path).st_mode | stat.S_IEXEC
chmod_executable(mode) == mode \cup {S_IEXEC}

\* step 1: make the executable file executable
MakeExecutable ==
  /\ pc = "chmod_executable"
  /\ UNCHANGED <<form, locals, env, apps_dir, apps_files, desktop_dir,
                 desktop_files, subprocess_runs>>
  /\ \E raised \in {"", "OSError"} :
       LET making == Append(log_text, <<"Making executable: ", executable_path>>)
           e      == IF may_chmod(caller) THEN raised ELSE "PermissionError"
       IN  IF ~os_access(exe_mode, caller, noexec)
           THEN IF e = ""
                THEN /\ exe_mode' = chmod_executable(exe_mode)
                     /\ log_text' = Append(making, <<"File made executable">>)
                     /\ pc' = "build"
                     /\ UNCHANGED <<messages, history>>
                ELSE /\ UNCHANGED exe_mode
                     /\ except(making, e)
           ELSE /\ raised = ""
                /\ log_text' = Append(making, <<"File is already executable">>)
                /\ pc' = "build"
                /\ UNCHANGED <<exe_mode, messages, history>>

DotDesktop == <<".", "d", "e", "s", "k", "t", "o", "p">>

make_filename_keeping_case(name) == replace(name, " ", "-") \o DotDesktop

\* app_name.lower().replace(' ', '-') + '.desktop'
make_filename(name) == replace(lower(name), " ", "-") \o DotDesktop

make_content_icon_always(name, cmt, exec, term, cat, icon) ==
  <<  <<"[Desktop Entry]">>,
      <<"Version", "1.0">>,
      <<"Type", "Application">>,
      <<"Name", name>>,
      <<"Comment", IF cmt # <<>> THEN cmt ELSE name>>,
      <<"Exec", exec>>,
      <<"Terminal", IF term THEN "true" ELSE "false">>,
      <<"Categories", <<cat, ";">> >>,
      <<"StartupNotify", "true">>,
      <<"Icon", icon>>  >>

\* the f-string of the entry, with the Icon line appended when an icon is set
make_content(name, cmt, exec, term, cat, icon) ==
  <<  <<"[Desktop Entry]">>,
      <<"Version", "1.0">>,
      <<"Type", "Application">>,
      <<"Name", name>>,
      <<"Comment", IF cmt # <<>> THEN cmt ELSE name>>,
      <<"Exec", exec>>,
      <<"Terminal", IF term THEN "true" ELSE "false">>,
      <<"Categories", <<cat, ";">> >>,
      <<"StartupNotify", "true">>  >>
  \o (IF icon # "" THEN << <<"Icon", icon>> >> ELSE <<>>)

\* create the desktop entry content
BuildEntry ==
  /\ pc = "build"
  /\ desktop_filename' = make_filename(app_name)
  /\ desktop_content' = make_content(app_name, comment, executable_path, terminal,
                                     categories, icon_path)
  /\ pc' = "mkdir"
  /\ UNCHANGED <<form, log_text, env, disk, subprocess_runs, messages, history>>

\* step 2: apps_dir.mkdir(parents=True, exist_ok=True)
EnsureDirectory ==
  /\ pc = "mkdir"
  /\ UNCHANGED <<form, locals, env, exe_mode, apps_files, desktop_dir,
                 desktop_files, subprocess_runs>>
  /\ \E raised \in {"", "OSError"} :
       IF raised = ""
       THEN /\ apps_dir' = TRUE
            /\ pc' = "write"
            /\ UNCHANGED <<log_text, messages, history>>
       ELSE /\ UNCHANGED apps_dir
            /\ except(log_text, raised)

\* the ways open(path, 'w') followed by f.write(text) ends
WriteOutcomes == {"written", "open raised", "write raised"}

\* the directory after open(path, 'w') and f.write(text) ended as `outcome`
after_write(files, name, text, outcome) ==
  CASE outcome = "written"      -> write_file(files, name, text)
    [] outcome = "open raised"  -> files
    [] outcome = "write raised" -> write_file(files, name, <<>>)

\* step 3: write the desktop file
WriteEntry ==
  /\ pc = "write"
  /\ UNCHANGED <<form, locals, env, exe_mode, apps_dir, desktop_dir,
                 desktop_files, subprocess_runs>>
  /\ \E outcome \in WriteOutcomes :
       LET creating == Append(log_text, <<"Creating desktop file: ", AppsDirPath, desktop_filename>>)
       IN  /\ apps_files' = after_write(apps_files, desktop_filename, desktop_content, outcome)
           /\ IF outcome = "written"
              THEN /\ log_text' = creating
                   /\ pc' = "chmod_entry"
                   /\ UNCHANGED <<messages, history>>
              ELSE except(creating, "OSError")

\* current_permissions | S_IEXEC | S_IXUSR | S_IXGRP | S_IXOTH
entry_mode(current_permissions) == current_permissions \cup {S_IEXEC} \cup ExecBits

\* step 4: make the desktop file executable
ChmodEntry ==
  /\ pc = "chmod_entry"
  /\ UNCHANGED <<form, locals, env, exe_mode, apps_dir, desktop_dir,
                 desktop_files, subprocess_runs>>
  /\ \E raised \in {"", "OSError"} :
       IF raised = ""
       THEN /\ apps_files' = chmod_file(apps_files, desktop_filename,
                                        entry_mode(apps_files[desktop_filename].mode))
            /\ log(<<"Desktop file made executable">>)
            /\ pc' = "verify"
            /\ UNCHANGED <<messages, history>>
       ELSE /\ UNCHANGED apps_files
            /\ except(log_text, raised)

\* step 5: verify it is executable
Verify ==
  /\ pc = "verify"
  /\ IF os_access(apps_files[desktop_filename].mode, own_class, noexec)
     THEN log(<<"OK Desktop file executable permissions verified">>)
     ELSE log(<<"! Warning: Desktop file may not be executable">>)
  /\ pc' = "update_database"
  /\ UNCHANGED <<form, locals, env, disk, subprocess_runs, messages, history>>

\* step 6: update the desktop database
UpdateDatabase ==
  /\ pc = "update_database"
  /\ UNCHANGED <<form, locals, env, disk>>
  /\ LET raised == tool IN
       /\ subprocess_runs' = subprocess_runs + 1
       /\ CASE raised = "" ->
                 /\ log(<<"Desktop database updated">>)
                 /\ pc' = "copy"
                 /\ UNCHANGED <<messages, history>>
            [] raised = "CalledProcessError" ->
                 /\ log(<<"Warning: Could not update desktop database: ", raised>>)
                 /\ pc' = "copy"
                 /\ UNCHANGED <<messages, history>>
            [] raised = "FileNotFoundError" ->
                 /\ log(<<"Warning: update-desktop-database not found, shortcut may not appear immediately">>)
                 /\ pc' = "copy"
                 /\ UNCHANGED <<messages, history>>
            [] OTHER -> except(log_text, raised)

desktop_dir_assumed == TRUE

\* desktop_dir.exists()
desktop_dir_exists == desktop_dir

\* step 7: copy to the desktop if requested
CopyToDesktop ==
  /\ pc = "copy"
  /\ UNCHANGED <<form, locals, env, exe_mode, apps_dir, apps_files, desktop_dir,
                 subprocess_runs>>
  /\ IF desktop_copy
     THEN IF desktop_dir_exists
          THEN \E outcome \in WriteOutcomes, raised \in {"", "OSError"} :
                 LET written == after_write(desktop_files, desktop_filename,
                                            desktop_content, outcome)
                 IN  IF outcome = "written" /\ raised = ""
                     THEN /\ desktop_files' = chmod_file(written, desktop_filename,
                                                entry_mode(written[desktop_filename].mode))
                          /\ log(<<"Desktop shortcut created and made executable: ",
                                   DesktopDirPath, desktop_filename>>)
                          /\ pc' = "finish"
                          /\ UNCHANGED <<messages, history>>
                     ELSE /\ outcome # "written" => raised = "OSError"
                          /\ desktop_files' = written
                          /\ except(log_text, raised)
          ELSE /\ log(<<"Warning: Desktop directory not found, skipping desktop copy">>)
               /\ pc' = "finish"
               /\ UNCHANGED <<desktop_files, messages, history>>
     ELSE /\ pc' = "finish"
          /\ UNCHANGED <<log_text, desktop_files, messages, history>>

\* the end of the try block: the success lines and the success message box
Finish ==
  /\ pc = "finish"
  /\ UNCHANGED <<form, locals, env, disk, subprocess_runs>>
  /\ log_text' = log_text \o
       << <<"OK Desktop shortcut created successfully!">>,
          <<"Application '", app_name, "' should now appear in your application menu">> >>
  /\ messages' = Append(messages,
       information(<<"Desktop shortcut for '", app_name, "' created successfully!">>))
  /\ pc' = "done"
  /\ report("success")

Next ==
  \/ EditForm
  \/ Submit
  \/ MakeExecutable
  \/ BuildEntry
  \/ EnsureDirectory
  \/ WriteEntry
  \/ ChmodEntry
  \/ Verify
  \/ UpdateDatabase
  \/ CopyToDesktop
  \/ Finish

\* The form is filled in once; "Create Desktop Shortcut" is then clicked up to
\* MaxSubmissions times.
Spec == Init /\ [][Next]_vars

-----------------------------------------------------------------------------
(* Rendering alone: create_shortcut stands before the rendering of the entry, *)
(* for every validated form over Names, Comments and the category items.      *)

InitBuild ==
  /\ executable_path = TheExecutable
  /\ icon_path \in {"", TheIcon}
  /\ app_name \in Names \ {<<>>}
  /\ comment \in Comments
  /\ categories \in {CategoryItems[i] : i \in DOMAIN CategoryItems}
  /\ terminal \in BOOLEAN
  /\ desktop_copy = FALSE
  /\ log_text = << <<"Starting desktop shortcut creation...">>,
                   <<"Making executable: ", TheExecutable>>,
                   <<"File is already executable">> >>
  /\ pc = "build"
  /\ desktop_filename = <<>>
  /\ desktop_content = <<>>
  /\ caller = "owner"
  /\ noexec = FALSE
  /\ tool = ""
  /\ exe_mode = {"S_IRUSR", "S_IXUSR"}
  /\ apps_dir = TRUE
  /\ apps_files = EmptyDir
  /\ desktop_dir = TRUE
  /\ desktop_files = EmptyDir
  /\ subprocess_runs = 0
  /\ messages = <<>>
  /\ history = <<>>

NextBuild == BuildEntry

SpecBuild == InitBuild /\ [][NextBuild]_vars

-----------------------------------------------------------------------------
(* Properties *)

Last(seq) == seq[Len(seq)]

Range(seq) == {seq[i] : i \in DOMAIN seq}

\* a submission is waiting to start, or has ended
Resting == pc \in {"idle", "done"}

\* the form breaks one of the four validation rules
Invalid ==
  \/ executable_path = ""
  \/ executable_path \notin ExistingPaths
  \/ app_name = <<>>
  \/ icon_path # "" /\ icon_path \notin ExistingPaths

\* the name is empty once surrounding whitespace is trimmed
Blank(name) == \A i \in DOMAIN name : name[i] = " "

\* the step just taken ended a submission
Ended == Len(history') = Len(history) + 1

Succeeded == pc = "done" /\ history # <<>> /\ Last(history).result = "success"

DesktopWarning == <<"Warning: Desktop directory not found, skipping desktop copy">>

\* C1: a submission whose form has an empty or missing executable, an empty
\* name or a missing icon is rejected: it ends at once with one error box,
\* appends no log line, changes no mode, directory or file, and runs no
\* command; the pipeline starts from a valid form only.
C1_RejectedSubmissionTouchesNothing ==
  [][ /\ (Resting /\ Invalid /\ Ended) =>
            /\ pc' = "done"
            /\ Last(history').result = "rejected"
            /\ Len(messages') = 1 /\ messages'[1].kind = "critical"
            /\ UNCHANGED <<log_text, disk, subprocess_runs>>
      /\ (Resting /\ ~Resting') => ~Invalid
    ]_vars

C1_Witness ==
  /\ pc = "done"
  /\ Len(history) = 1
  /\ history[1].result = "rejected"
  /\ executable_path = TheExecutable
  /\ app_name # <<>>
  /\ icon_path = "/opt/app/gone.png"
  /\ log_text = <<>>

\* C2 (as claimed): once steps 1-4 have succeeded, nothing that happens in
\* steps 5-7 ends the submission with a reported error.
C2_BestEffortStepsNeverReportError ==
  [][ (pc \in {"verify", "update_database", "copy"}) =>
        ~(Ended /\ Last(history').result = "error")
    ]_vars

\* C3: when a submission has ended it has shown exactly one message box, a
\* success box naming the application or an error box with the failure
\* description, and it shows none before it ends.
C3_ExactlyOneNotification ==
  /\ (pc \notin {"idle", "done"}) => messages = <<>>
  /\ pc = "done" =>
       /\ Len(messages) = 1
       /\ CASE Last(history).result = "success" ->
                 /\ messages[1].kind = "information"
                 /\ messages[1].text =
                      <<"Desktop shortcut for '", app_name, "' created successfully!">>
            [] Last(history).result = "error" ->
                 /\ messages[1].kind = "critical"
                 /\ messages[1].text[2] \in {"OSError", "PermissionError"}
            [] Last(history).result = "rejected" ->
                 /\ messages[1].kind = "critical"
                 /\ messages[1].text # <<"">>

C3_Witness ==
  /\ Succeeded
  /\ tool = "FileNotFoundError"
  /\ desktop_copy /\ ~desktop_dir
  /\ DesktopWarning \in Range(log_text)
  /\ Len(messages) = 1

\* C4 (as claimed): a name that is empty after trimming whitespace never gets
\* past validation, and no entry file is written for it.
C4_BlankNameRejected ==
  Blank(app_name) => (Resting /\ apps_files = EmptyDir)

\* C5: when two successive submissions of the same form both succeed, the
\* entry file holds after the second exactly the content it held after the
\* first (the rendered content once, not twice), and neither directory has
\* gained a file.
C5_InstallIdempotent ==
  (Succeeded /\ Len(history) >= 2 /\ history[Len(history) - 1].result = "success") =>
     LET first  == history[Len(history) - 1]
         second == history[Len(history)]
     IN  /\ second.apps = apps_files
         /\ desktop_filename \in DOMAIN first.apps
         /\ second.apps[desktop_filename].content = first.apps[desktop_filename].content
         /\ second.apps[desktop_filename].content = desktop_content
         /\ DOMAIN second.apps = DOMAIN first.apps
         /\ DOMAIN second.desktop = DOMAIN first.desktop

C5_Witness ==
  /\ Succeeded
  /\ Len(history) = 2
  /\ history[1].result = "success"
  /\ icon_path = TheIcon
  /\ desktop_copy /\ desktop_dir

C7_OwnerExecuteAfterSuccess ==
  Succeeded => "S_IXUSR" \in exe_mode

\* C7 (amended): step 1 adds the owner-execute bit, and nothing else, exactly
\* when the calling user cannot execute the file, and otherwise leaves the
\* mode alone; after a successful submission the file has the owner-execute
\* bit or the calling user could execute it already (the mode and the caller
\* being what they were at step 1).
C7_ExecutableForCallerAfterSuccess ==
  [][ /\ pc = "chmod_executable" =>
            IF os_access(exe_mode, caller, noexec)
            THEN exe_mode' = exe_mode /\ pc' = "build"
            ELSE /\ pc' = "build" => exe_mode' = exe_mode \cup {"S_IXUSR"}
                 /\ pc' = "done" => exe_mode' = exe_mode
      /\ pc # "chmod_executable" => exe_mode' = exe_mode
      /\ (Ended /\ Last(history').result = "success") =>
            \/ "S_IXUSR" \in exe_mode'
            \/ os_access(exe_mode', caller, noexec)
    ]_vars

C7_Witness ==
  /\ Succeeded
  /\ caller = "owner"
  /\ <<"File made executable">> \in Range(log_text)
  /\ exe_mode = {"S_IRUSR", "S_IXGRP", "S_IXUSR"}

\* C8: the entry filename is the name with every "M" lower-cased and every
\* space turned into a hyphen, character by character, followed by
\* ".desktop"; it holds no space and no upper-case letter.
C8_FilenameFromName ==
  pc = "mkdir" =>
    /\ Len(desktop_filename) = Len(app_name) + 8
    /\ \A i \in DOMAIN app_name :
         desktop_filename[i] = CASE app_name[i] = "M" -> "m"
                                 [] app_name[i] = " " -> "-"
                                 [] OTHER -> app_name[i]
    /\ SubSeq(desktop_filename, Len(app_name) + 1, Len(app_name) + 8)
         = <<".", "d", "e", "s", "k", "t", "o", "p">>
    /\ \A i \in DOMAIN desktop_filename : desktop_filename[i] \notin {" ", "M"}

C8_Witness ==
  /\ pc = "mkdir"
  /\ app_name = <<"M", " ", " ">>
  /\ desktop_filename = <<"m", "-", "-", ".", "d", "e", "s", "k", "t", "o", "p">>

\* C9: the rendered content starts with the nine fixed lines in their order;
\* it has no Icon line when the icon path is empty, and otherwise exactly one,
\* "Icon=<icon path>", as its last line.
C9_IconLine ==
  pc = "mkdir" =>
    LET icons == {i \in DOMAIN desktop_content : desktop_content[i][1] = "Icon"}
    IN  /\ [i \in 1..9 |-> desktop_content[i][1]] =
             <<"[Desktop Entry]", "Version", "Type", "Name", "Comment", "Exec",
               "Terminal", "Categories", "StartupNotify">>
        /\ icon_path = "" => icons = {} /\ Len(desktop_content) = 9
        /\ icon_path # "" =>
             /\ icons = {10}
             /\ Len(desktop_content) = 10
             /\ desktop_content[10] = <<"Icon", icon_path>>

C9_Witness ==
  /\ pc = "mkdir"
  /\ icon_path = TheIcon
  /\ Last(desktop_content) = <<"Icon", TheIcon>>

PipelineOrder ==
  <<"chmod_executable", "build", "mkdir", "write", "chmod_entry", "verify",
    "update_database", "copy", "finish", "done">>

\* C10: the steps run in their fixed order; a failure of steps 1-4 ends the
\* submission at once with the failure logged and shown in one error box, no
\* command run and no Desktop file written; nothing is rolled back: a failed
\* step 1 or 2 leaves the applications directory's files as they were, and a
\* failed step 4 leaves the entry file with the content step 3 wrote and the
\* mode it had before step 4.
C10_AbortWithoutRollback ==
  [][ /\ \A i \in 1..9 : pc = PipelineOrder[i] => pc' \in {PipelineOrder[i + 1], "done"}
      /\ (pc \in {"chmod_executable", "mkdir", "write", "chmod_entry"} /\ pc' = "done") =>
            /\ Ended /\ Last(history').result = "error"
            /\ Len(messages') = 1
            /\ messages'[1].kind = "critical"
            /\ messages'[1].text[2] \in {"OSError", "PermissionError"}
            /\ Last(log_text') = <<"X ", messages'[1].text>>
            /\ UNCHANGED <<subprocess_runs, desktop_files>>
      /\ (pc \in {"chmod_executable", "mkdir"} /\ pc' = "done") => UNCHANGED apps_files
      /\ (pc = "chmod_entry" /\ pc' = "done") =>
            /\ UNCHANGED apps_files
            /\ apps_files'[desktop_filename].content = desktop_content
            /\ history = <<>> => apps_files'[desktop_filename].mode \cap ExecBits = {}
      /\ exe_mode \subseteq exe_mode'
      /\ apps_dir => apps_dir'
    ]_vars

C10_Witness ==
  /\ pc = "done"
  /\ Len(history) = 1
  /\ history[1].result = "error"
  /\ desktop_filename \in DOMAIN apps_files
  /\ apps_files[desktop_filename].content = desktop_content
  /\ apps_files[desktop_filename].mode \cap ExecBits = {}
  /\ subprocess_runs = 0

====
